---- MODULE Spec2Model ----
(***************************************************************************)
(* A model of the Antigravity quota checker (src/unnamed/part_001, the     *)
(* cross-platform script; src/index.js is its Windows-only predecessor and *)
(* equals the IS_WINDOWS path).                                            *)
(*                                                                         *)
(* Strings are sequences of one-character strings, so that includes,       *)
(* startsWith, toLowerCase, trim, split and the regular expressions of the *)
(* source are computed character by character.  The standard output of a   *)
(* subprocess is a sequence of lines.  JSON values are tagged records.     *)
(***************************************************************************)
EXTENDS Integers, Sequences, FiniteSets, TLC

VARIABLES
  platform,     \* "win32" or "unix": IS_WINDOWS
  procTable,    \* environment: the OS process table, in listing order
  listingMode,  \* environment: how the process listing command ends
  processInfo,  \* main: the locator's result, NullHandle or [pid, csrfToken]
  sockTable,    \* environment: the OS socket table
  ports,        \* findListeningPorts*: the Set of ports, in insertion order
  toolsRun,     \* the listing tools run so far, in order
  probeLog,     \* the probes issued so far: [port, response], in order
  status,       \* main: the local variable status
  stdout,       \* console.log lines
  stderr,       \* console.error lines
  exitCode,     \* the process's exit code, -1 while running
  stages,       \* the stages of main executed so far, in order
  pc            \* main's position

vars == <<platform, procTable, listingMode, processInfo, sockTable,
          ports, toolsRun, probeLog, status, stdout, stderr, exitCode,
          stages, pc>>

(***************************************************************************)
(* Characters and strings                                                  *)
(***************************************************************************)
UpperChars == <<"A","B","C","D","E","F","G","H","I","J","K","L","M",
                "N","O","P","Q","R","S","T","U","V","W","X","Y","Z">>
LowerChars == <<"a","b","c","d","e","f","g","h","i","j","k","l","m",
                "n","o","p","q","r","s","t","u","v","w","x","y","z">>
DigitChars == <<"0","1","2","3","4","5","6","7","8","9">>

IsUpper(c) == \E i \in DOMAIN UpperChars : UpperChars[i] = c
IsDigit(c) == \E i \in DOMAIN DigitChars : DigitChars[i] = c
\* \s of the regular expressions, and the characters trim() strips
IsSpace(c) == c \in {" ", "\t", "\r", "\n"}
IsQuote(c) == c \in {"\"", "'"}
DigitVal(c) == (CHOOSE i \in DOMAIN DigitChars : DigitChars[i] = c) - 1

toLowerChar(c) ==
  IF IsUpper(c)
    THEN LowerChars[CHOOSE i \in DOMAIN UpperChars : UpperChars[i] = c]
    ELSE c

\* String.prototype.toLowerCase
toLowerCase(s) == [i \in DOMAIN s |-> toLowerChar(s[i])]

\* p occurs in s at position i (1-based)
MatchesAt(s, p, i) ==
  /\ i >= 1
  /\ i + Len(p) - 1 <= Len(s)
  /\ \A k \in 1..Len(p) : s[i + k - 1] = p[k]

\* String.prototype.includes
includes(s, p) == \E i \in 1..(Len(s) + 1) : MatchesAt(s, p, i)

\* String.prototype.startsWith
startsWith(s, p) == MatchesAt(s, p, 1)

\* character classes of the regular expressions of the source
InClass(c, cls) ==
  CASE cls = "space"    -> IsSpace(c)                   \* \s
    [] cls = "nonspace" -> ~IsSpace(c)                  \* \S
    [] cls = "digit"    -> IsDigit(c)                   \* \d
    [] cls = "sep"      -> c = "=" \/ IsSpace(c)        \* [=\s]
    [] cls = "nonquote" -> ~IsQuote(c)                  \* [^"']
    [] cls = "bare"     -> ~IsSpace(c) /\ ~IsQuote(c)   \* [^\s"']

\* the length of the longest run of characters of class cls that starts at i
RunLen(s, i, cls) ==
  LET stop == {j \in i..Len(s) : ~InClass(s[j], cls)}
  IN  IF i > Len(s) THEN 0
      ELSE IF stop = {} THEN Len(s) - i + 1
      ELSE (CHOOSE j \in stop : \A k \in stop : j <= k) - i

Slice(s, from, to) == IF from > to THEN << >> ELSE SubSeq(s, from, to)

\* String.prototype.trim
trim(s) ==
  LET keep == {j \in DOMAIN s : ~IsSpace(s[j])}
  IN  IF keep = {} THEN << >>
      ELSE Slice(s, CHOOSE j \in keep : \A k \in keep : j <= k,
                    CHOOSE j \in keep : \A k \in keep : j >= k)

\* line.split(/\s+/) of a trimmed, non-empty line: its columns
RECURSIVE splitWs(_)
splitWs(s) ==
  IF s = << >> THEN << >>
  ELSE LET w == RunLen(s, 1, "nonspace")
           g == RunLen(s, w + 1, "space")
       IN  <<Slice(s, 1, w)>> \o splitWs(Slice(s, w + g + 1, Len(s)))

\* localAddress.split(":").pop(): the text after the last colon (the whole
\* string when it has none)
afterLastColon(s) ==
  LET colons == {j \in DOMAIN s : s[j] = ":"}
  IN  IF colons = {} THEN s
      ELSE Slice(s, (CHOOSE j \in colons : \A k \in colons : j >= k) + 1, Len(s))

\* the value of a run of decimal digits
RECURSIVE DigitsValue(_)
DigitsValue(s) ==
  IF s = << >> THEN 0
  ELSE 10 * DigitsValue(Slice(s, 1, Len(s) - 1)) + DigitVal(s[Len(s)])

\* Number(text) followed by Number.isInteger(port) && port > 0: the port, or
\* 0 when the guard fails.  Number("") is 0 and Number of a text with a
\* character that is no digit is NaN (the texts of the model hold no sign,
\* exponent, radix prefix or surrounding blanks).
positivePort(text) ==
  IF text # << >> /\ \A i \in DOMAIN text : IsDigit(text[i])
    THEN DigitsValue(text)
    ELSE 0

\* concatenation of the strings of a sequence, sep between them
RECURSIVE Join(_, _)
Join(parts, sep) ==
  IF parts = << >> THEN << >>
  ELSE IF Len(parts) = 1 THEN parts[1]
  ELSE parts[1] \o sep \o Join(Tail(parts), sep)

\* the decimal text of a natural number
RECURSIVE NatText(_)
NatText(n) ==
  IF n < 10 THEN <<DigitChars[n + 1]>>
  ELSE NatText(n \div 10) \o <<DigitChars[(n % 10) + 1]>>

(***************************************************************************)
(* Texts of the source and of the environment                              *)
(***************************************************************************)
sAntigravity == <<"a","n","t","i","g","r","a","v","i","t","y">>
sNode        == <<"n","o","d","e">>
sCsrfFlag    == <<"-","-","c","s","r","f","_","t","o","k","e","n">>
sLoopback    == <<"1","2","7",".","0",".","0",".","1">>
sListening   == <<"L","I","S","T","E","N","I","N","G">>
sSp          == <<" ">>

(***************************************************************************)
(* extractArgValue: the regular expression                                 *)
(*   flagName[=\s]+(?:["']([^"']+)["']|([^\s"']+))                         *)
(* matched leftmost, its quantifiers greedy with backtracking.  The result *)
(* is match[1] || match[2] || null; null is the empty string here, the     *)
(* callers only test the result for truthiness.                            *)
(***************************************************************************)
\* the alternation tried at position p: the quoted value, else the bare one
valueAt(s, p) ==
  LET q == RunLen(s, p + 1, "nonquote")
      b == RunLen(s, p, "bare")
  IN  IF p <= Len(s) /\ IsQuote(s[p]) /\ q >= 1 /\ p + q + 1 <= Len(s)
        THEN Slice(s, p + 1, p + q)
      ELSE IF b >= 1 THEN Slice(s, p, p + b - 1)
      ELSE << >>

\* the match that starts at position i, << >> if there is none
matchFlagAt(s, flagName, i) ==
  LET j0 == i + Len(flagName)
      maxsep == RunLen(s, j0, "sep")
      ks == {k \in 1..maxsep : valueAt(s, j0 + k) # << >>}
  IN  IF ~MatchesAt(s, flagName, i) \/ ks = {} THEN << >>
      ELSE valueAt(s, j0 + (CHOOSE k \in ks : \A m \in ks : k >= m))

extractArgValue(commandLine, flagName) ==
  LET starts == {i \in DOMAIN commandLine :
                   matchFlagAt(commandLine, flagName, i) # << >>}
  IN  IF starts = {} THEN << >>
      ELSE matchFlagAt(commandLine, flagName,
                       CHOOSE i \in starts : \A k \in starts : i <= k)

(***************************************************************************)
(* Process Locator                                                         *)
(***************************************************************************)
NullHandle == [found |-> FALSE]
Handle(pid, csrfToken) == [found |-> TRUE, pid |-> pid, csrfToken |-> csrfToken]

\* `ps -e -o pid,args`: a header, then one line per process, the pid
\* right-aligned and the command line after it
psHeader == <<" "," ","P","I","D"," ","C","O","M","M","A","N","D">>
psLine(p) == <<" "," "," ">> \o NatText(p.pid) \o sSp \o p.cmd
psOutput(table) == <<psHeader>> \o [i \in DOMAIN table |-> psLine(table[i])]

\* line.trim().match(/^(\d+)\s+(.+)$/): <<pid, commandLine>>, << >> if the
\* line does not match
matchPsLine(line) ==
  LET t == trim(line)
      d == RunLen(t, 1, "digit")
      g == RunLen(t, d + 1, "space")
  IN  IF d >= 1 /\ g >= 1 /\ d + g < Len(t)
        THEN <<Slice(t, 1, d), Slice(t, d + g + 1, Len(t))>>
        ELSE << >>

\* the loop of findAntigravityProcessUnix over the lines from line i on
RECURSIVE scanPsLines(_, _)
scanPsLines(lines, i) ==
  IF i > Len(lines) THEN NullHandle
  ELSE LET line == lines[i]
           m == matchPsLine(line)
       IN  IF ~includes(line, sAntigravity) /\ ~includes(line, sNode)
             THEN scanPsLines(lines, i + 1)
           ELSE IF m = << >> THEN scanPsLines(lines, i + 1)
           ELSE IF ~includes(m[2], sCsrfFlag) THEN scanPsLines(lines, i + 1)
           ELSE IF extractArgValue(m[2], sCsrfFlag) # << >>
             THEN Handle(m[1], extractArgValue(m[2], sCsrfFlag))
           ELSE scanPsLines(lines, i + 1)

findAntigravityProcessUnix(table, mode) ==
  IF mode = "error" THEN NullHandle
  ELSE scanPsLines(psOutput(table), 1)

\* Where-Object { ($_.Name -like '*antigravity*') -or
\*                ($_.CommandLine -like '*antigravity*') }: -like ignores case
likeAntigravity(p) ==
  \/ includes(toLowerCase(p.name), sAntigravity)
  \/ includes(toLowerCase(p.cmd), sAntigravity)

RECURSIVE SelectSeq2(_, _)
SelectSeq2(seq, i) ==
  IF i > Len(seq) THEN << >>
  ELSE (IF likeAntigravity(seq[i]) THEN <<seq[i]>> ELSE << >>)
       \o SelectSeq2(seq, i + 1)

\* the process query's parsed output: the selected processes, each with its
\* ProcessId and CommandLine
processQuery(table) == SelectSeq2(table, 1)

\* the loop of findAntigravityProcessWin32 over the list from entry i on
RECURSIVE scanProcessList(_, _)
scanProcessList(list, i) ==
  IF i > Len(list) THEN NullHandle
  ELSE LET commandLine == list[i].cmd
       IN  IF ~includes(commandLine, sCsrfFlag)
             THEN scanProcessList(list, i + 1)
           ELSE IF extractArgValue(commandLine, sCsrfFlag) # << >>
             THEN Handle(NatText(list[i].pid),
                         extractArgValue(commandLine, sCsrfFlag))
           ELSE scanProcessList(list, i + 1)

\* mode "error": runCommand rejects; "badjson": JSON.parse throws; an empty
\* selection prints nothing, and output.trim() is empty
findAntigravityProcessWin32(table, mode) ==
  IF mode = "error" THEN NullHandle
  ELSE IF processQuery(table) = << >> THEN NullHandle
  ELSE IF mode = "badjson" THEN NullHandle
  ELSE scanProcessList(processQuery(table), 1)

findAntigravityProcess(plat, table, mode) ==
  IF plat = "win32"
    THEN findAntigravityProcessWin32(table, mode)
    ELSE findAntigravityProcessUnix(table, mode)

(***************************************************************************)
(* Port Scanner                                                            *)
(*                                                                         *)
(* The environment is the socket table a listing tool sees: rows           *)
(* [host, port, state, pid].  Each tool prints the rows its flags select   *)
(* in its own format; the scanner parses the text.                         *)
(***************************************************************************)
sColon       == <<":">>
sLoopbackCol == sLoopback \o sColon

\* ports.add(port): a Set keeps insertion order and no duplicates
addPort(set, port) ==
  IF \E i \in DOMAIN set : set[i] = port THEN set ELSE Append(set, port)

\* `netstat -ano` (Windows): two header lines, then
\*   Proto  Local Address  Foreign Address  State  PID
winNetstatLine(r) ==
  <<" "," ","T","C","P"," "," "," "," ">> \o r.host \o sColon \o r.port \o <<" "," "," "," ","0",".","0",".","0",".","0",":","0"," "," "," "," ">>
    \o r.state \o <<" "," "," "," ">> \o NatText(r.pid)
winNetstatOutput(table) ==
  << <<"A","c","t","i","v","e"," ","C","o","n","n","e","c","t","i","o","n","s">>, << >>,
     <<" "," ","P","r","o","t","o"," "," ","L","o","c","a","l"," ","A","d","d","r","e","s","s"," "," ","F","o","r","e","i","g","n"," ","A","d","d","r","e","s","s"," "," ","S","t","a","t","e"," "," ","P","I","D">> >>
  \o [i \in DOMAIN table |-> winNetstatLine(table[i])]

\* the loop of findListeningPortsWin32 over the lines from line i on
RECURSIVE scanWinLines(_, _, _, _)
scanWinLines(lines, i, pid, set) ==
  IF i > Len(lines) THEN set
  ELSE LET line == trim(lines[i])
           columns == splitWs(line)
           localAddress == columns[2]
           state == columns[4]
           processId == columns[5]
           port == positivePort(afterLastColon(localAddress))
       IN  IF line = << >> THEN scanWinLines(lines, i + 1, pid, set)
           ELSE IF Len(columns) < 5 THEN scanWinLines(lines, i + 1, pid, set)
           ELSE IF processId # pid \/ state # sListening
             THEN scanWinLines(lines, i + 1, pid, set)
           ELSE IF ~startsWith(localAddress, sLoopback)
             THEN scanWinLines(lines, i + 1, pid, set)
           ELSE IF port > 0
             THEN scanWinLines(lines, i + 1, pid, addPort(set, port))
           ELSE scanWinLines(lines, i + 1, pid, set)

\* line.match(/127\.0\.0\.1:(\d+)/) followed by Number and the guard
\* Number.isInteger(port) && port > 0: the port of the leftmost match, 0 when
\* there is no match or the guard fails
loopbackPort(line) ==
  LET starts == {i \in DOMAIN line :
                   /\ MatchesAt(line, sLoopbackCol, i)
                   /\ RunLen(line, i + Len(sLoopbackCol), "digit") >= 1}
      at == (CHOOSE i \in starts : \A k \in starts : i <= k) + Len(sLoopbackCol)
  IN  IF starts = {} THEN 0
      ELSE positivePort(Slice(line, at, at + RunLen(line, at, "digit") - 1))

\* `ss -lptn`: listening TCP sockets with their processes; the processes
\* are left out (showPid = FALSE) when ss may not read them
ssLine(r, showPid) ==
  <<"L","I","S","T","E","N"," ","0"," ","1","2","8"," ">> \o r.host \o sColon \o r.port
    \o <<" ","0",".","0",".","0",".","0",":","*">>
    \o (IF showPid
          THEN <<" ","u","s","e","r","s",":","(","(","\"","n","o","d","e","\"",",","p","i","d","=">> \o NatText(r.pid) \o <<",","f","d","=","1","8",")",")">>
          ELSE << >>)
\* `lsof -a -P -n -iTCP -sTCP:LISTEN -p PID`: the process's listening sockets
lsofLine(r) ==
  <<"n","o","d","e"," ">> \o NatText(r.pid) \o <<" ","u","s","e","r"," ","1","8","u"," ","I","P","v","4"," ","0","x","1"," ","0","t","0"," ","T","C","P"," ">>
    \o r.host \o sColon \o r.port \o <<" ","(","L","I","S","T","E","N",")">>
\* `netstat -tlpn`: listening TCP sockets with PID/Program name, which is
\* "-" (showPid = FALSE) when netstat may not read it
unixNetstatLine(r, showPid) ==
  <<"t","c","p"," ","0"," ","0"," ">> \o r.host \o sColon \o r.port \o <<" ","0",".","0",".","0",".","0",":","*"," ","L","I","S","T","E","N"," ">>
    \o (IF showPid THEN NatText(r.pid) \o <<"/","n","o","d","e">> ELSE <<"-">>)

RECURSIVE listeningRows(_, _)
listeningRows(table, i) ==
  IF i > Len(table) THEN << >>
  ELSE (IF table[i].state = sListening THEN <<table[i]>> ELSE << >>)
       \o listeningRows(table, i + 1)

RECURSIVE rowsOfPid(_, _, _)
rowsOfPid(table, i, pid) ==
  IF i > Len(table) THEN << >>
  ELSE (IF NatText(table[i].pid) = pid THEN <<table[i]>> ELSE << >>)
       \o rowsOfPid(table, i + 1, pid)

ssOutput(table, showPid) ==
  LET rows == listeningRows(table, 1)
  IN  << <<"S","t","a","t","e"," ","R","e","c","v","-","Q"," ","S","e","n","d","-","Q"," ","L","o","c","a","l"," ","A","d","d","r","e","s","s",":","P","o","r","t"," ","P","e","e","r"," ","A","d","d","r","e","s","s",":","P","o","r","t"," ","P","r","o","c","e","s","s">> >>
      \o [i \in DOMAIN rows |-> ssLine(rows[i], showPid)]
lsofOutput(table, pid) ==
  LET rows == rowsOfPid(listeningRows(table, 1), 1, pid)
  IN  << <<"C","O","M","M","A","N","D"," ","P","I","D"," ","U","S","E","R"," ","F","D"," ","T","Y","P","E"," ","D","E","V","I","C","E"," ","S","I","Z","E","/","O","F","F"," ","N","O","D","E"," ","N","A","M","E">> >>
      \o [i \in DOMAIN rows |-> lsofLine(rows[i])]
unixNetstatOutput(table, showPid) ==
  LET rows == listeningRows(table, 1)
  IN  << <<"A","c","t","i","v","e"," ","I","n","t","e","r","n","e","t"," ","c","o","n","n","e","c","t","i","o","n","s"," ","(","o","n","l","y"," ","s","e","r","v","e","r","s",")">>,
         <<"P","r","o","t","o"," ","R","e","c","v","-","Q"," ","S","e","n","d","-","Q"," ","L","o","c","a","l"," ","A","d","d","r","e","s","s"," ","F","o","r","e","i","g","n"," ","A","d","d","r","e","s","s"," ","S","t","a","t","e"," ","P","I","D","/","P","r","o","g","r","a","m"," ","n","a","m","e">> >>
      \o [i \in DOMAIN rows |-> unixNetstatLine(rows[i], showPid)]

\* the three loops of findListeningPortsUnix over the lines from line i on
RECURSIVE scanSsLines(_, _, _, _)
scanSsLines(lines, i, pid, set) ==
  IF i > Len(lines) THEN set
  ELSE LET line == lines[i]
       IN  IF /\ ~includes(line, <<"p","i","d","=">> \o pid \o <<",">>)
              /\ ~includes(line, <<"p","i","d","=">> \o pid \o <<")">>)
             THEN scanSsLines(lines, i + 1, pid, set)
           ELSE IF loopbackPort(line) > 0
             THEN scanSsLines(lines, i + 1, pid, addPort(set, loopbackPort(line)))
           ELSE scanSsLines(lines, i + 1, pid, set)

RECURSIVE scanLsofLines(_, _, _)
scanLsofLines(lines, i, set) ==
  IF i > Len(lines) THEN set
  ELSE IF loopbackPort(lines[i]) > 0
    THEN scanLsofLines(lines, i + 1, addPort(set, loopbackPort(lines[i])))
  ELSE scanLsofLines(lines, i + 1, set)

RECURSIVE scanNetstatLines(_, _, _, _)
scanNetstatLines(lines, i, pid, set) ==
  IF i > Len(lines) THEN set
  ELSE LET line == lines[i]
       IN  IF ~includes(line, sSp \o pid \o <<"/">>)
             THEN scanNetstatLines(lines, i + 1, pid, set)
           ELSE IF loopbackPort(line) > 0
             THEN scanNetstatLines(lines, i + 1, pid,
                                   addPort(set, loopbackPort(line)))
           ELSE scanNetstatLines(lines, i + 1, pid, set)

(***************************************************************************)
(* JSON values and the JavaScript operations printUsage applies to them    *)
(*                                                                         *)
(* A number is the rational n/d with d > 0 (an integer has d = 1); every   *)
(* number of the model is finite.  Arithmetic is exact: the inputs of the  *)
(* model are chosen so that the double-precision result of the source's    *)
(* expression is the exact one.                                            *)
(***************************************************************************)
Undef    == [t |-> "undefined"]
Null     == [t |-> "null"]
Bool(b)  == [t |-> "bool", b |-> b]
Frac(n, d) == [t |-> "num", n |-> n, d |-> d]
Num(n)   == Frac(n, 1)
Str(s)   == [t |-> "str", s |-> s]
Obj(f)   == [t |-> "obj", f |-> f]
Arr(e)   == [t |-> "arr", e |-> e]

\* ToBoolean
Truthy(v) ==
  CASE v.t = "undefined" -> FALSE
    [] v.t = "null"      -> FALSE
    [] v.t = "bool"      -> v.b
    [] v.t = "num"       -> v.n # 0
    [] v.t = "str"       -> v.s # << >>
    [] OTHER             -> TRUE

Nullish(v) == v.t \in {"undefined", "null"}

\* v.k for a v that is not nullish: only an object of the response has the
\* properties printUsage reads
Get(v, k) == IF v.t = "obj" /\ k \in DOMAIN v.f THEN v.f[k] ELSE Undef

\* v?.k
OptGet(v, k) == IF Nullish(v) THEN Undef ELSE Get(v, k)

\* a || b
Or(a, b) == IF Truthy(a) THEN a ELSE b

\* Number.isFinite
isFinite(v) == v.t = "num"

\* roundTimes100 with Math.floor for Math.round
floorTimes100(x) == (100 * x.n) \div x.d

\* Math.round(x * 100) of the number x: the nearest integer, a tie towards
\* +Infinity
roundTimes100(x) == (200 * x.n + x.d) \div (2 * x.d)

sAutocomplete == <<"a","u","t","o","c","o","m","p","l","e","t","e">>
sEmbedding    == <<"e","m","b","e","d","d","i","n","g">>
sUnknown      == <<"U","n","k","n","o","w","n">>

(***************************************************************************)
(* printUsage.  The result is the lines console.log printed, and whether   *)
(* a TypeError was thrown (and which) before the function returned.        *)
(***************************************************************************)
\* model.label || model.modelOrAlias?.model || fallback
labelOf(model, fallback) ==
  Or(Or(Get(model, "label"), OptGet(Get(model, "modelOrAlias"), "model")),
     Str(fallback))

\* the callback of configs.filter
keepModel(model) ==
  LET normalized == toLowerCase(labelOf(model, << >>).s)
  IN  ~includes(normalized, sAutocomplete) /\ ~includes(normalized, sEmbedding)

\* configs.filter(...) from entry i on: the entries kept, or the TypeError
\* that model.label (of null or undefined) or label.toLowerCase (of a label
\* that is no string) throws
RECURSIVE filterModels(_, _, _)
filterModels(configs, i, kept) ==
  IF i > Len(configs) THEN [threw |-> "", models |-> kept]
  ELSE IF Nullish(configs[i])
    THEN [threw |-> "Cannot read properties of null (reading 'label')",
          models |-> << >>]
  ELSE IF labelOf(configs[i], << >>).t # "str"
    THEN [threw |-> "label.toLowerCase is not a function",
          models |-> << >>]
  ELSE filterModels(configs, i + 1,
         IF keepModel(configs[i]) THEN Append(kept, configs[i]) ELSE kept)

\* new Date(dateValue) is a valid date: a number is a time value, true is
\* 1 ms; a string is parsed, and of the strings of the model the ones of the
\* form YYYY-MM-DDTHH:MM:SSZ are dates; an object or an array is not
dateParses(v) ==
  CASE v.t = "num"  -> TRUE
    [] v.t = "bool" -> TRUE
    [] v.t = "str"  ->
         /\ Len(v.s) = 20
         /\ \A i \in 1..20 :
              CASE i \in {5, 8}   -> v.s[i] = "-"
                [] i = 11         -> v.s[i] = "T"
                [] i \in {14, 17} -> v.s[i] = ":"
                [] i = 20         -> v.s[i] = "Z"
                [] OTHER          -> IsDigit(v.s[i])
    [] OTHER -> FALSE

\* formatDate: "N/A", or toLocaleString() of the date: the date formatted in
\* the locale's way, or the text "Invalid Date"
formatDate(dateValue) ==
  IF ~Truthy(dateValue) THEN [text |-> "N/A"]
  ELSE IF dateParses(dateValue) THEN [text |-> "date", of |-> dateValue]
  ELSE [text |-> "Invalid Date"]

\* the line printed for one model that passed the filter
modelLine(model) ==
  LET remainingFraction == OptGet(Get(model, "quotaInfo"), "remainingFraction")
  IN  [line |-> "model",
       label |-> labelOf(model, sUnknown).s,
       remaining |-> IF isFinite(remainingFraction)
                       THEN [text |-> "%", pct |-> roundTimes100(remainingFraction)]
                       ELSE [text |-> "N/A"],
       resets |-> formatDate(OptGet(Get(model, "quotaInfo"), "resetTime"))]

\* monthlyCredits > 0
creditsGuard(monthlyCredits) == monthlyCredits.n > 0

\* the template line `Credits: ${usedCredits} / ${monthlyCredits} used (${percentage}%)`
creditsLine(monthlyCredits, availableCredits) ==
  LET usedCredits == Frac(monthlyCredits.n * availableCredits.d
                            - availableCredits.n * monthlyCredits.d,
                          monthlyCredits.d * availableCredits.d)
      \* usedCredits / monthlyCredits, the denominator positive
      ratio == Frac(usedCredits.n * monthlyCredits.d,
                    usedCredits.d * monthlyCredits.n)
      percentage == IF creditsGuard(monthlyCredits) THEN roundTimes100(ratio) ELSE 0
  IN  [line |-> "credits", used |-> usedCredits, monthly |-> monthlyCredits,
       percentage |-> percentage]

printUsage(st) ==
  LET user == OptGet(st, "userStatus")
      head == << [line |-> "title"], [line |-> "rule"],
                 [line |-> "user", email |-> Or(Get(user, "email"), Str(sUnknown))] >>
      monthlyCredits ==
        OptGet(OptGet(Get(user, "planStatus"), "planInfo"), "monthlyPromptCredits")
      availableCredits == OptGet(Get(user, "planStatus"), "availablePromptCredits")
      credits == IF isFinite(monthlyCredits) /\ isFinite(availableCredits)
                   THEN <<creditsLine(monthlyCredits, availableCredits)>>
                   ELSE << >>
      configs == OptGet(Get(user, "cascadeModelConfigData"), "clientModelConfigs")
      filtered == filterModels(configs.e, 1, << >>)
  IN  IF ~Truthy(user)
        THEN [lines |-> << [line |-> "no user status"] >>, threw |-> ""]
      ELSE IF configs.t # "arr"
        THEN [lines |-> head \o credits, threw |-> ""]
      ELSE IF filtered.threw # ""
        THEN [lines |-> head \o credits, threw |-> filtered.threw]
      ELSE IF filtered.models = << >>
        THEN [lines |-> head \o credits, threw |-> ""]
      ELSE [lines |-> head \o credits \o << [line |-> "model quotas"] >>
                      \o [i \in DOMAIN filtered.models |->
                            modelLine(filtered.models[i])],
            threw |-> ""]

(***************************************************************************)
(* Status Client: one probe, and main's loop over the candidate ports      *)
(***************************************************************************)
Pending == [kind |-> "pending"]

\* how the promise of fetchUserStatus settles for the server's response:
\* "timeout" and "error" are the request's events, "http" is a response
\* that ended, with its status code and its body (parses: JSON.parse
\* returns value)
fetchUserStatus(response) ==
  CASE response.kind = "timeout" ->
         [settled |-> "rejected", error |-> "Request timed out"]
    [] response.kind = "error" ->
         [settled |-> "rejected", error |-> "connect ECONNREFUSED"]
    [] response.kind = "http" /\ response.statusCode # 200 ->
         [settled |-> "rejected", error |-> "HTTP status"]
    [] response.kind = "http" /\ ~response.parses ->
         [settled |-> "rejected", error |-> "Invalid JSON response"]
    [] OTHER ->
         [settled |-> "resolved", value |-> response.value]

\* loopStep with the catch leaving the loop: the first failed probe ends
\* the probing
loopStepAbort(result, isLast) ==
  IF result.settled = "resolved"
    THEN [status |-> result.value, pc |-> "after"]
    ELSE [status |-> Null, pc |-> "after"]

\* loopStep without the break: the loop goes on after a probe that resolved
loopStepNoBreak(result, isLast) ==
  [status |-> IF result.settled = "resolved" THEN result.value ELSE Null,
   pc |-> IF isLast THEN "after" ELSE "probe"]

\* one turn of main's for loop once the probe has settled: the try assigns
\* status and breaks, the catch resets status and the loop goes on to the
\* next port, if there is one
loopStep(result, isLast) ==
  IF result.settled = "resolved"
    THEN [status |-> result.value, pc |-> "after"]
    ELSE [status |-> Null, pc |-> IF isLast THEN "after" ELSE "probe"]

ErrNotFound ==
  "Error: Could not find an Antigravity process with csrf token.\\nMake sure Antigravity is running."
ErrNoPorts == "Error: No local listening ports found for Antigravity process."
ErrConnect == "Error: Could not connect to Antigravity local server."

\* main after the loop, and the catch handler of main(): what is printed
\* and the exit code
finish(st) ==
  IF ~Truthy(st)
    THEN [stdout |-> << >>, stderr |-> <<ErrConnect>>, exitCode |-> 1]
  ELSE IF printUsage(st).threw # ""
    THEN [stdout |-> printUsage(st).lines,
          stderr |-> <<"Error: " \o printUsage(st).threw>>, exitCode |-> 1]
  ELSE [stdout |-> printUsage(st).lines, stderr |-> << >>, exitCode |-> 0]

\* noPortsYet with the guard gone: the next tool runs whatever the Set holds
noPortsYetAlways(set) == TRUE

\* the guard of the second and the third listing tool: ports.size === 0
noPortsYet(set) == set = << >>

(***************************************************************************)
(* Bounds and the inputs the environment is drawn from                     *)
(***************************************************************************)
MaxProcs == 2      \* processes in the process table
MaxRows == 2       \* rows in the socket table a tool sees
MaxModels == 2     \* entries of clientModelConfigs
MaxCredit == 8     \* credits range over -MaxCredit..MaxCredit

\* all sequences over S of length at most n
RECURSIVE SeqsUpTo(_, _)
SeqsUpTo(S, n) ==
  IF n = 0 THEN {<< >>}
  ELSE SeqsUpTo(S, n - 1)
       \cup {Append(q, x) : q \in {r \in SeqsUpTo(S, n - 1) : Len(r) = n - 1}, x \in S}

\* processes: the application, the application under its capitalised name
\* with a quoted token, a node process that is not the application, the
\* application without a token, with an empty quoted token, and a process
\* that is neither
ProcKinds ==
  { [name |-> sAntigravity,
     cmd  |-> <<"a","n","t","i","g","r","a","v","i","t","y"," ","-","-","c","s","r","f","_","t","o","k","e","n","=","a","b">>],
    [name |-> <<"A","n","t","i","g","r","a","v","i","t","y">>,
     cmd  |-> <<"/","o","p","t","/","A","n","t","i","g","r","a","v","i","t","y"," ","-","-","c","s","r","f","_","t","o","k","e","n"," ","'","c","d","'">>],
    [name |-> sNode,
     cmd  |-> <<"n","o","d","e"," ","s","r","v",".","j","s"," ","-","-","c","s","r","f","_","t","o","k","e","n"," ","e","f">>],
    [name |-> sAntigravity,
     cmd  |-> <<"a","n","t","i","g","r","a","v","i","t","y"," ","-","-","n","o","-","s","a","n","d","b","o","x">>],
    [name |-> sAntigravity,
     cmd  |-> <<"a","n","t","i","g","r","a","v","i","t","y"," ","-","-","c","s","r","f","_","t","o","k","e","n"," ","\"","\"">>],
    [name |-> <<"b","a","s","h">>,
     cmd  |-> <<"b","a","s","h"," ","r","u","n",".","s","h"," ","-","-","c","s","r","f","_","t","o","k","e","n","=","g","h">>] }

\* the i-th listed process has the process ID 11 + i
WithPids(kinds) ==
  [i \in DOMAIN kinds |-> [pid |-> 11 + i, name |-> kinds[i].name, cmd |-> kinds[i].cmd]]

ProcTables == {WithPids(k) : k \in SeqsUpTo(ProcKinds, MaxProcs)}

ListingModes(plat) ==
  IF plat = "win32" THEN {"ok", "error", "badjson"} ELSE {"ok", "error"}

\* socket rows: two that qualify for process 12, and one that fails each
\* single condition: another process, another state, another address, an
\* address that only starts with 127.0.0.1, and a port that is not positive
sEstablished == <<"E","S","T","A","B","L","I","S","H","E","D">>
SockRows ==
  { [host |-> sLoopback,      port |-> <<"5","0","0","0">>, state |-> sListening,   pid |-> 12],
    [host |-> sLoopback,      port |-> <<"5","0","0","1">>, state |-> sListening,   pid |-> 12],
    [host |-> sLoopback,      port |-> <<"5","0","0","2">>, state |-> sListening,   pid |-> 312],
    [host |-> sLoopback,      port |-> <<"5","0","0","3">>, state |-> sEstablished, pid |-> 12],
    [host |-> <<"0",".","0",".","0",".","0">>,    port |-> <<"5","0","0","4">>, state |-> sListening,   pid |-> 12],
    [host |-> <<"1","2","7",".","0",".","0",".","1","0">>, port |-> <<"5","0","0","5">>, state |-> sListening,   pid |-> 12],
    [host |-> sLoopback,      port |-> <<"0">>,    state |-> sListening,   pid |-> 12] }

SockTables == SeqsUpTo(SockRows, MaxRows)

\* entries of clientModelConfigs.  A property whose value is Undef is an
\* absent property.
QuotaInfo(fraction, resetTime) ==
  Obj([remainingFraction |-> fraction, resetTime |-> resetTime])
ModelEntry(label, model, quotaInfo) ==
  Obj([label |-> label,
       modelOrAlias |-> IF model = Undef THEN Undef ELSE Obj([model |-> model]),
       quotaInfo |-> quotaInfo])

sResetTime == <<"2","0","2","6","-","0","2","-","1","3","T","1","8",":","5","7",":","5","8","Z">>
eGemini    == ModelEntry(Str(<<"G","e","m","i","n","i"," ","3"," ","P","r","o"," ","(","H","i","g","h",")">>), Str(<<"M","O","D","E","L","_","G","3">>),
                         QuotaInfo(Frac(4, 5), Str(sResetTime)))
eAutocomp  == ModelEntry(Str(<<"F","a","s","t"," ","A","u","t","o","c","o","m","p","l","e","t","e">>), Undef,
                         QuotaInfo(Num(1), Str(sResetTime)))
eEmbedAlias == ModelEntry(Undef, Str(<<"t","e","x","t","-","e","m","b","e","d","d","i","n","g","-","3">>), Undef)
eAliasOnly == ModelEntry(Undef, Str(<<"c","l","a","u","d","e","-","4">>), QuotaInfo(Frac(1, 8), Null))
eEmbedCaps == ModelEntry(Str(<<"E","m","b","e","d","d","i","n","g"," ","G","e","c","k","o">>), Undef, Null)
eNumLabel  == ModelEntry(Num(7), Undef, Undef)
\* entries that pass the filter with a quota that is absent or malformed: a
\* resetTime that is no date, no quotaInfo at all, and a remainingFraction
\* that is a string
eBadReset  == ModelEntry(Str(<<"B","e","t","a">>), Undef, QuotaInfo(Frac(1, 2), Str(<<"s","o","o","n">>)))
eNoQuota   == ModelEntry(Str(<<"P","l","a","i","n">>), Undef, Undef)
eStrFraction == ModelEntry(Str(<<"G","a","m","m","a">>), Undef, QuotaInfo(Str(<<"0",".","5">>), Str(sResetTime)))

\* well-formed entries, and the malformed ones: null, and a label that is
\* a number
ModelEntries ==
  {eGemini, eAutocomp, eEmbedAlias, eAliasOnly, eEmbedCaps, eNumLabel, Null,
   eBadReset, eNoQuota, eStrFraction}

UserStatus(email, monthly, available, configs) ==
  Obj([email |-> email,
       planStatus |-> Obj([planInfo |-> Obj([monthlyPromptCredits |-> monthly]),
                           availablePromptCredits |-> available]),
       cascadeModelConfigData |-> Obj([clientModelConfigs |-> configs])])
Body(userStatus) == Obj([userStatus |-> userStatus])

sEmail == <<"y","o","u","@","e","x","a","m","p","l","e",".","c","o","m">>

\* credit values: small integers, the values of the README's example, and
\* values that are absent, null or no number
CreditValues ==
  {Num(n) : n \in (-MaxCredit)..MaxCredit}
    \cup {Num(50000), Num(500), Undef, Null, Str(<<"1","0","0">>)}

\* bodies that parse as JSON but are no object with a userStatus object
OddBodies ==
  { Null, Bool(FALSE), Num(0), Str(<< >>), Num(5), Body(Undef), Body(Null),
    Body(Str(<<"o","k">>)),
    Body(Obj([email |-> Undef, planStatus |-> Null,
              cascadeModelConfigData |-> Str(<<"n","o","n","e">>)])),
    Body(UserStatus(Null, Num(50000), Num(500), Obj([length |-> Num(1)]))) }

RenderBodies ==
  OddBodies
    \cup {Body(UserStatus(Str(sEmail), m, a, Undef)) :
            m \in CreditValues, a \in CreditValues}
    \cup {Body(UserStatus(Str(sEmail), Num(50000), Num(500), Arr(l))) :
            l \in SeqsUpTo(ModelEntries, MaxModels)}

\* the bodies the server answers with in a run of the whole pipeline
PipelineBodies ==
  { Null, Body(Undef),
    Body(UserStatus(Str(sEmail), Num(50000), Num(500),
                    Arr(<<eGemini, eAutocomp>>))),
    Body(UserStatus(Str(sEmail), Num(0), Num(0), Arr(<<Null>>))) }

Responses ==
  { [kind |-> "timeout"], [kind |-> "error"],
    [kind |-> "http", statusCode |-> 500, parses |-> TRUE, value |-> Body(Undef)],
    [kind |-> "http", statusCode |-> 200, parses |-> FALSE, value |-> Undef] }
    \cup {[kind |-> "http", statusCode |-> 200, parses |-> TRUE, value |-> b] :
            b \in PipelineBodies}

\* socket tables of a run of the whole pipeline: rows in the order listed
PipelineSockTables ==
  LET Row(host, port, pid) ==
        [host |-> host, port |-> port, state |-> sListening, pid |-> pid]
  IN  { << >>,
        << Row(sLoopback, <<"5","0","0","0">>, 12) >>,
        << Row(sLoopback, <<"5","0","0","2">>, 312), Row(sLoopback, <<"5","0","0","1">>, 12),
           Row(sLoopback, <<"5","0","0","0">>, 12) >>,
        << Row(sLoopback, <<"5","0","0","0">>, 12), Row(<<"1","2","7",".","0",".","0",".","1","0">>, <<"5","0","0","5">>, 12),
           Row(sLoopback, <<"5","0","0","1">>, 12), Row(sLoopback, <<"5","0","0","0">>, 12) >> }

PipelineProcTables ==
  { << >>,
    WithPids(<< [name |-> sAntigravity, cmd |-> <<"a","n","t","i","g","r","a","v","i","t","y"," ","-","-","c","s","r","f","_","t","o","k","e","n","=","a","b">>] >>),
    WithPids(<< [name |-> sNode, cmd |-> <<"n","o","d","e"," ","s","r","v",".","j","s"," ","-","-","c","s","r","f","_","t","o","k","e","n"," ","e","f">>],
                [name |-> sAntigravity, cmd |-> <<"a","n","t","i","g","r","a","v","i","t","y"," ","-","-","c","s","r","f","_","t","o","k","e","n","=","a","b">>] >>) }

(***************************************************************************)
(* The run of main as a state machine                                      *)
(***************************************************************************)
\* a thrown Error reaches main().catch: console.error, then process.exit(1)
Fail(message) ==
  /\ stderr' = Append(stderr, message)
  /\ exitCode' = 1
  /\ pc' = "exit"

\* const processInfo = await findAntigravityProcess(); if (!processInfo) throw
FindProcess ==
  /\ pc = "locate"
  /\ processInfo' = findAntigravityProcess(platform, procTable, listingMode)
  /\ stages' = Append(stages, "locate")
  /\ IF processInfo'.found
       THEN pc' = "scan" /\ UNCHANGED <<stderr, exitCode>>
       ELSE Fail(ErrNotFound)
  /\ UNCHANGED <<platform, procTable, listingMode, sockTable, ports,
                 toolsRun, probeLog, status, stdout>>

\* how a listing tool ends: runCommand rejects ("error", which the catch
\* absorbs), or it prints the socket table, with ("ok") or without
\* ("nopid") the owning processes
ToolOutcomes(tool) ==
  IF tool \in {"ss", "netstat"} THEN {"error", "ok", "nopid"} ELSE {"error", "ok"}

\* the Set after a tool's block, which adds the ports it finds to set
portsFrom(tool, outcome, table, pid, set) ==
  CASE outcome = "error" -> set
    [] tool = "netstat -ano" ->
         scanWinLines(winNetstatOutput(table), 1, pid, set)
    [] tool = "ss" ->
         scanSsLines(ssOutput(table, outcome = "ok"), 1, pid, set)
    [] tool = "lsof" ->
         scanLsofLines(lsofOutput(table, pid), 1, set)
    [] tool = "netstat" ->
         scanNetstatLines(unixNetstatOutput(table, outcome = "ok"), 1, pid, set)

\* a listing tool has run: the Set after it, and the tool's entry in the
\* log with the ports it found
ToolRan(tool) ==
  \E outcome \in ToolOutcomes(tool) :
    /\ ports' = portsFrom(tool, outcome, sockTable, processInfo.pid, ports)
    /\ toolsRun' = Append(toolsRun,
         [tool |-> tool, outcome |-> outcome,
          yielded |-> portsFrom(tool, outcome, sockTable, processInfo.pid, << >>)])

\* findListeningPortsWin32
ScanWin32 ==
  /\ pc = "scan" /\ platform = "win32"
  /\ ToolRan("netstat -ano")
  /\ stages' = Append(stages, "scan")
  /\ pc' = "scanned"
  /\ UNCHANGED <<platform, procTable, listingMode, processInfo, sockTable,
                 probeLog, status, stdout, stderr, exitCode>>

\* findListeningPortsUnix, 1: ss
RunSs ==
  /\ pc = "scan" /\ platform = "unix"
  /\ ToolRan("ss")
  /\ stages' = Append(stages, "scan")
  /\ pc' = "lsof"
  /\ UNCHANGED <<platform, procTable, listingMode, processInfo, sockTable,
                 probeLog, status, stdout, stderr, exitCode>>

\* findListeningPortsUnix, 2: lsof, if (ports.size === 0)
RunLsof ==
  /\ pc = "lsof"
  /\ \/ noPortsYet(ports) /\ ToolRan("lsof")
     \/ ~noPortsYet(ports) /\ UNCHANGED <<ports, toolsRun>>
  /\ pc' = "netstat"
  /\ UNCHANGED <<platform, procTable, listingMode, processInfo, sockTable,
                 probeLog, status, stdout, stderr, exitCode, stages>>

\* findListeningPortsUnix, 3: netstat, if (ports.size === 0)
RunNetstat ==
  /\ pc = "netstat"
  /\ \/ noPortsYet(ports) /\ ToolRan("netstat")
     \/ ~noPortsYet(ports) /\ UNCHANGED <<ports, toolsRun>>
  /\ pc' = "scanned"
  /\ UNCHANGED <<platform, procTable, listingMode, processInfo, sockTable,
                 probeLog, status, stdout, stderr, exitCode, stages>>

\* return [...ports] to main: if (ports.length === 0) throw
CheckPorts ==
  /\ pc = "scanned"
  /\ IF ports = << >>
       THEN Fail(ErrNoPorts) /\ UNCHANGED stages
       ELSE /\ pc' = "probe"
            /\ stages' = Append(stages, "probe")
            /\ UNCHANGED <<stderr, exitCode>>
  /\ UNCHANGED <<platform, procTable, listingMode, processInfo, sockTable,
                 ports, toolsRun, probeLog, status, stdout>>

\* status = await fetchUserStatus(port, ...): the request to the next port
\* is written
ProbeStart ==
  /\ pc = "probe"
  /\ probeLog' = Append(probeLog,
                        [port |-> ports[Len(probeLog) + 1], response |-> Pending])
  /\ pc' = "await"
  /\ UNCHANGED <<platform, procTable, listingMode, processInfo, sockTable,
                 ports, toolsRun, status, stdout, stderr, exitCode,
                 stages>>

\* the promise settles, and main's loop takes its turn
ProbeSettle ==
  /\ pc = "await"
  /\ \E response \in Responses :
       LET step == loopStep(fetchUserStatus(response), Len(probeLog) = Len(ports))
       IN  /\ probeLog' = [probeLog EXCEPT ![Len(probeLog)].response = response]
           /\ status' = step.status
           /\ pc' = step.pc
  /\ UNCHANGED <<platform, procTable, listingMode, processInfo, sockTable,
                 ports, toolsRun, stdout, stderr, exitCode, stages>>

\* if (!status) throw; printUsage(status); and the end of the process
Finish ==
  /\ pc = "after"
  /\ stdout' = stdout \o finish(status).stdout
  /\ stderr' = stderr \o finish(status).stderr
  /\ exitCode' = finish(status).exitCode
  /\ stages' = IF Truthy(status) THEN Append(stages, "render") ELSE stages
  /\ pc' = "exit"
  /\ UNCHANGED <<platform, procTable, listingMode, processInfo, sockTable,
                 ports, toolsRun, probeLog, status>>

\* the state before main has run, the environment aside
Start(at) ==
  /\ processInfo = NullHandle
  /\ ports = << >>
  /\ toolsRun = << >> /\ probeLog = << >>
  /\ stdout = << >> /\ stderr = << >>
  /\ exitCode = -1
  /\ stages = << >>
  /\ pc = at

Init ==
  /\ platform \in {"win32", "unix"}
  /\ listingMode \in ListingModes(platform)
  /\ procTable \in PipelineProcTables
  /\ sockTable \in PipelineSockTables
  /\ status = Null
  /\ Start("locate")

Next ==
  \/ FindProcess
  \/ ScanWin32
  \/ RunSs
  \/ RunLsof
  \/ RunNetstat
  \/ CheckPorts
  \/ ProbeStart
  \/ ProbeSettle
  \/ Finish

Spec == Init /\ [][Next]_vars

(***************************************************************************)
(* The stages on their own, over larger inputs                             *)
(***************************************************************************)
\* the Process Locator over every process table of the bound
InitLocate ==
  /\ platform \in {"win32", "unix"}
  /\ listingMode \in ListingModes(platform)
  /\ procTable \in ProcTables
  /\ sockTable = << >>
  /\ status = Null
  /\ Start("locate")

SpecLocate == InitLocate /\ [][FindProcess]_vars

\* the Port Scanner over every socket table of the bound, for a process
\* that was found
InitScan ==
  /\ platform \in {"win32", "unix"}
  /\ listingMode = "ok"
  /\ procTable = << >>
  /\ sockTable \in SockTables
  /\ processInfo \in {Handle(<<"1","2">>, <<"a","b">>), Handle(<<"3","1","2">>, <<"a","b">>)}
  /\ ports = << >> /\ toolsRun = << >> /\ probeLog = << >>
  /\ status = Null
  /\ stdout = << >> /\ stderr = << >>
  /\ exitCode = -1
  /\ stages = <<"locate">>
  /\ pc = "scan"

NextScan ==
  \/ ScanWin32
  \/ RunSs
  \/ RunLsof
  \/ RunNetstat

SpecScan == InitScan /\ [][NextScan]_vars

\* the renderer over every parsed body of the bound: main after a loop
\* whose first probe resolved with the body
InitRender ==
  /\ platform \in {"win32", "unix"}
  /\ listingMode = "ok"
  /\ procTable = << >>
  /\ sockTable = << >>
  /\ processInfo = Handle(<<"1","2">>, <<"a","b">>)
  /\ ports = <<5000>>
  /\ toolsRun = << >>
  /\ status \in RenderBodies
  /\ probeLog = << [port |-> 5000,
                    response |-> [kind |-> "http", statusCode |-> 200,
                                  parses |-> TRUE, value |-> status]] >>
  /\ stdout = << >> /\ stderr = << >>
  /\ exitCode = -1
  /\ stages = <<"locate", "scan", "probe">>
  /\ pc = "after"

SpecRender == InitRender /\ [][Finish]_vars

(***************************************************************************)
(* Claims                                                                  *)
(***************************************************************************)
\* a probe that returned HTTP 200 with a body that parses as JSON
Succeeded(entry) ==
  /\ entry.response.kind = "http"
  /\ entry.response.statusCode = 200
  /\ entry.response.parses
\* a probe that settled without that
Failed(entry) == entry.response.kind # "pending" /\ ~Succeeded(entry)

NoDuplicates(seq) ==
  \A i, j \in DOMAIN seq : i # j => seq[i] # seq[j]

\* C1: every run of main ends in exactly one of four outcomes, no stage
\* executed more than once: not found -> the 'process not found' error, exit
\* 1, no scan and no probe; found but no ports -> the 'no ports found' error,
\* exit 1, no probe; every probe failed -> the 'could not connect' error,
\* exit 1; otherwise the report is rendered and the exit code is 0.  The
\* three messages are pairwise distinct.
C1_FourOutcomes ==
  pc = "exit" =>
    /\ NoDuplicates(stages)
    /\ Cardinality({ErrNotFound, ErrNoPorts, ErrConnect}) = 3
    /\ CASE ~processInfo.found ->
              /\ stderr = <<ErrNotFound>> /\ exitCode = 1 /\ stdout = << >>
              /\ toolsRun = << >> /\ probeLog = << >>
         [] processInfo.found /\ ports = << >> ->
              /\ stderr = <<ErrNoPorts>> /\ exitCode = 1 /\ stdout = << >>
              /\ probeLog = << >>
         [] /\ processInfo.found /\ ports # << >>
            /\ \A i \in DOMAIN probeLog : Failed(probeLog[i]) ->
              stderr = <<ErrConnect>> /\ exitCode = 1 /\ stdout = << >>
         [] OTHER ->
              /\ stderr = << >> /\ exitCode = 0
              /\ stages = <<"locate", "scan", "probe", "render">>

\* C2: given a non-empty candidate list, the run reports 'could not
\* connect' if and only if no probe returned HTTP 200 with a body that
\* parses as JSON, whatever JSON value it parses to.
C2_ConnectErrorIffNoSuccess ==
  (pc = "exit" /\ processInfo.found /\ ports # << >>) =>
    ((\E i \in DOMAIN stderr : stderr[i] = ErrConnect)
       <=> (\A i \in DOMAIN probeLog : ~Succeeded(probeLog[i])))

\* C3: the ports probed are the prefix of the scanner's list up to and
\* including the first port whose probe succeeds (the whole list if none
\* does): in list order, one at a time, each probe started only after the
\* previous one settled, no port twice, none after a success.
C3_ProbesArePrefix ==
  /\ Len(probeLog) <= Len(ports)
  /\ \A i \in DOMAIN probeLog : probeLog[i].port = ports[i]
  /\ \A i \in DOMAIN probeLog : i < Len(probeLog) => Failed(probeLog[i])
  /\ NoDuplicates([i \in DOMAIN probeLog |-> probeLog[i].port])
  /\ (pc = "exit" /\ processInfo.found /\ ports # << >>) =>
       /\ probeLog # << >>
       /\ \/ Succeeded(probeLog[Len(probeLog)])
          \/ Failed(probeLog[Len(probeLog)]) /\ Len(probeLog) = Len(ports)

\* C3's case: a three-port list whose first probe fails and whose second
\* succeeds, so the third port is never probed
C3_Witness ==
  /\ pc = "exit"
  /\ Len(ports) = 3
  /\ Len(probeLog) = 2
  /\ Failed(probeLog[1]) /\ Succeeded(probeLog[2])

\* what a run prints and how it exits when its candidate list holds one
\* port, which answers with response
SingleRun(response) ==
  LET only == finish(loopStep(fetchUserStatus(response), TRUE).status)
  IN  <<only.stdout, only.stderr, only.exitCode>>

\* C4: if every port before P fails its probe and P returns HTTP 200 with
\* valid JSON, the output and the exit status are those of a run whose list
\* holds only P with the same response.
C4_SameAsOnlyP ==
  pc = "exit" =>
    \A k \in DOMAIN probeLog :
      (Succeeded(probeLog[k]) /\ \A j \in 1..(k - 1) : Failed(probeLog[j]))
        => <<stdout, stderr, exitCode>> = SingleRun(probeLog[k].response)

\* C4's case: the first two ports time out and the third answers a full
\* status, which is rendered
C4_Witness ==
  /\ pc = "exit"
  /\ Len(probeLog) = 3
  /\ probeLog[1].response.kind = "timeout"
  /\ probeLog[2].response.kind = "timeout"
  /\ Succeeded(probeLog[3])
  /\ exitCode = 0
  /\ \E i \in DOMAIN stdout : stdout[i].line = "model"

\* C8: for every successfully parsed body in which a field is absent, null
\* or of an unexpected shape, rendering completes and the run exits
\* successfully.
C8_ParsedBodyRenders ==
  (pc = "exit" /\ \E i \in DOMAIN probeLog : Succeeded(probeLog[i])) =>
    /\ exitCode = 0
    /\ stderr = << >>
    /\ stdout # << >>

\* the ports of the socket table's rows that qualify for process pid: the
\* owning PID is pid, the state is LISTENING, the local address starts with
\* 127.0.0.1 and ends in a positive-integer port
QualifyingPorts(table, pid) ==
  { DigitsValue(table[i].port) : i \in
      { j \in DOMAIN table :
          /\ NatText(table[j].pid) = pid
          /\ table[j].state = sListening
          /\ startsWith(table[j].host, sLoopback)
          /\ \A k \in DOMAIN table[j].port : IsDigit(table[j].port[k])
          /\ DigitsValue(table[j].port) > 0 } }

Range(seq) == {seq[i] : i \in DOMAIN seq}

\* C5: on every platform path the scanner returns exactly the
\* duplicate-free set of ports of the rows whose owning PID is the input
\* PID, whose state is LISTENING and whose local address starts with
\* 127.0.0.1 and ends in a positive-integer port.
C5_ExactlyQualifying ==
  \A i \in DOMAIN toolsRun :
    toolsRun[i].outcome = "ok" =>
      /\ NoDuplicates(toolsRun[i].yielded)
      /\ Range(toolsRun[i].yielded) = QualifyingPorts(sockTable, processInfo.pid)

UnixTools == <<"ss", "lsof", "netstat">>

\* C6: on the Unix path the tools are tried in the order ss, lsof, netstat;
\* the result is the port set of the first tool that yields a port, no
\* later tool is run once one has, a tool that errors or yields nothing
\* never keeps the next from being tried, and the result is empty only if
\* all three error or yield nothing.
C6_FirstToolThatYields ==
  platform = "unix" =>
    /\ Len(toolsRun) <= 3
    /\ \A i \in DOMAIN toolsRun : toolsRun[i].tool = UnixTools[i]
    /\ \A i \in DOMAIN toolsRun : i < Len(toolsRun) => toolsRun[i].yielded = << >>
    /\ pc = "scanned" =>
         /\ toolsRun # << >>
         /\ ports = toolsRun[Len(toolsRun)].yielded
         /\ ports = << >> => Len(toolsRun) = 3

\* C6's case: ss prints no processes and lsof fails, so netstat is reached
\* and its ports are the result
C6_Witness ==
  /\ platform = "unix" /\ pc = "scanned"
  /\ Len(toolsRun) = 3
  /\ toolsRun[1].outcome = "nopid"
  /\ toolsRun[2].outcome = "error"
  /\ toolsRun[3].outcome = "ok"
  /\ Len(ports) = 2

\* the listed processes that match the application's name pattern (the name
\* or the command line contains 'antigravity', whatever the case) and yield
\* a non-empty --csrf_token value
TokenYielders ==
  { i \in DOMAIN procTable :
      /\ \/ includes(toLowerCase(procTable[i].name), sAntigravity)
         \/ includes(toLowerCase(procTable[i].cmd), sAntigravity)
      /\ extractArgValue(procTable[i].cmd, sCsrfFlag) # << >> }

\* C7: a ProcessHandle the locator returns has a non-empty token, its
\* process ID and token are those of the first listed process that matches
\* the name pattern and yields a token; if no listed process does, the
\* locator returns not-found.
C7_HandleOfFirstMatch ==
  pc # "locate" =>
    /\ processInfo.found =>
         /\ processInfo.csrfToken # << >>
         /\ TokenYielders # {}
         /\ LET first == CHOOSE i \in TokenYielders : \A k \in TokenYielders : i <= k
            IN  /\ processInfo.pid = NatText(procTable[first].pid)
                /\ processInfo.csrfToken
                     = extractArgValue(procTable[first].cmd, sCsrfFlag)
    /\ TokenYielders = {} => ~processInfo.found

MonthlyOf(st) ==
  OptGet(OptGet(OptGet(OptGet(st, "userStatus"), "planStatus"), "planInfo"),
         "monthlyPromptCredits")
AvailableOf(st) ==
  OptGet(OptGet(OptGet(st, "userStatus"), "planStatus"), "availablePromptCredits")
IsInteger(v) == v.t = "num" /\ v.d = 1
CreditsLines == {i \in DOMAIN stdout : stdout[i].line = "credits"}

\* p = round(num / den): the integer nearest to num / den, a tie upwards
IsRounded(p, num, den) ==
  IF den > 0
    THEN 2 * p * den <= 2 * num + den /\ 2 * num + den < 2 * (p + 1) * den
    ELSE 2 * p * (-den) <= (-2) * num - den /\ (-2) * num - den < 2 * (p + 1) * (-den)

ConfigsOf(st) ==
  OptGet(OptGet(OptGet(st, "userStatus"), "cascadeModelConfigData"),
         "clientModelConfigs")

\* an entry's display label: its label if it has one (a non-empty string),
\* otherwise its modelOrAlias.model, otherwise none
DisplayLabel(entry) ==
  LET label == OptGet(entry, "label")
      model == OptGet(OptGet(entry, "modelOrAlias"), "model")
  IN  IF label.t = "str" /\ label.s # << >> THEN label.s
      ELSE IF model.t = "str" THEN model.s
      ELSE << >>

Retained(entry) ==
  /\ ~includes(toLowerCase(DisplayLabel(entry)), sAutocomplete)
  /\ ~includes(toLowerCase(DisplayLabel(entry)), sEmbedding)

IsModelLine(l) == l.line = "model"

\* C10: for any model-config list, the models printed are exactly the
\* entries, in their original order, whose display label does not contain
\* 'autocomplete' or 'embedding', whatever the case.
C10_ModelsPrinted ==
  (pc = "exit" /\ ConfigsOf(status).t = "arr") =>
    LET expected == SelectSeq(ConfigsOf(status).e, Retained)
        printed == SelectSeq(stdout, IsModelLine)
    IN  /\ Len(printed) = Len(expected)
        /\ \A i \in DOMAIN printed :
             printed[i].label = IF DisplayLabel(expected[i]) = << >>
                                  THEN sUnknown
                                  ELSE DisplayLabel(expected[i])

\* a model's quotaInfo.remainingFraction and quotaInfo.resetTime
FractionOf(entry) == OptGet(OptGet(entry, "quotaInfo"), "remainingFraction")
ResetTimeOf(entry) == OptGet(OptGet(entry, "quotaInfo"), "resetTime")

\* a reset timestamp that is present and parses as a date
PresentAndParseable(v) == ~Nullish(v) /\ dateParses(v)

\* C11: for each model that survives filtering, the printed line shows the
\* remaining-quota fraction as a rounded percentage when it is a finite
\* number and 'N/A' when it is absent or non-finite, and the reset timestamp
\* as a formatted date/time when it is present and parseable and 'N/A' when
\* it is absent or unparseable.
C11_QuotaAndReset ==
  (pc = "exit" /\ exitCode = 0 /\ ConfigsOf(status).t = "arr") =>
    LET expected == SelectSeq(ConfigsOf(status).e, Retained)
        printed == SelectSeq(stdout, IsModelLine)
    IN  /\ Len(printed) = Len(expected)
        /\ \A i \in DOMAIN printed :
             /\ IF isFinite(FractionOf(expected[i]))
                  THEN /\ printed[i].remaining.text = "%"
                       /\ IsRounded(printed[i].remaining.pct,
                                    100 * FractionOf(expected[i]).n,
                                    FractionOf(expected[i]).d)
                  ELSE printed[i].remaining.text = "N/A"
             /\ IF PresentAndParseable(ResetTimeOf(expected[i]))
                  THEN /\ printed[i].resets.text = "date"
                       /\ printed[i].resets.of = ResetTimeOf(expected[i])
                  ELSE printed[i].resets.text = "N/A"

====
